---- MODULE Spec2Model ----
(***************************************************************************)
(* Model of torch/_custom_op.py: the CustomOp registration facade.         *)
(*                                                                         *)
(* Strings whose characters the code inspects (namespaces) are sequences   *)
(* of one-character strings.  Every operator is created from a prototype   *)
(* function of the same __name__, so an operator is identified by its      *)
(* namespace ns (its qualified name is ns::name).                          *)
(***************************************************************************)
EXTENDS Integers, Sequences, FiniteSets, TLC

VARIABLES
    libs,               \* namespaces for which a Library(ns, "FRAGMENT") is alive
    defined,            \* operators whose schema the dispatcher has (lib.define)
    kernels,            \* kernels[ns][key]: the callable installed under a dispatch key
    global_registry,    \* global_registry: qualified names mapped to a CustomOp
    fake_impl,          \* fake_impl[ns]: CustomOp._fake_impl (NoFakeImpl or func+location)
    decorator,          \* the closure last returned by CustomOp.impl(...), if any
    global_ctx_getter,  \* the module global of the same name
    ctx_stack,          \* live set_ctx_getter frames (prev, ctx_getter; via: who entered), innermost first
    call,               \* the operator call in progress (dispatch position)
    guard,              \* TRUE while an _AutoDispatchBelowAutograd guard is alive
    attached,           \* history: the decorator applications that registered a kernel, in order
    shape_env,          \* the shape environment of the fake tensor mode in force, if any
    last                \* what the most recent operation was given and did

vars == <<libs, defined, kernels, global_registry, fake_impl, decorator,
          global_ctx_getter, ctx_stack, call, guard, attached, shape_env, last>>

dispatcher == <<libs, defined, kernels, global_registry, fake_impl>>

(***************************************************************************)
(* Bounds of the model.                                                    *)
(***************************************************************************)
MaxDepth == 2       \* nesting depth of fake-implementation calls
MaxArgs == 2        \* positional arguments of an operator call
MaxReturns == 2     \* returns a schema declares
MaxParams == 2      \* positional parameters a schema or a function declares
MaxSymbols == 2     \* unbacked symbols one shape environment allocates

(***************************************************************************)
(* Module constants.                                                       *)
(***************************************************************************)
Keys == {"Autograd", "CPU", "CUDA", "Meta"}
NoKernel == "no_kernel"

\* SUPPORTED_DEVICE_TYPE_TO_KEY.keys()
SupportedDeviceTypes == {"cpu", "cuda"}

\* variant: the two keys exchanged
SwappedDeviceKey(device_type) ==
    IF device_type = "cpu" THEN "CUDA"
    ELSE IF device_type = "cuda" THEN "CPU"
    ELSE "KeyError"

\* SUPPORTED_DEVICE_TYPE_TO_KEY[device_type]
SUPPORTED_DEVICE_TYPE_TO_KEY(device_type) ==
    IF device_type = "cpu" THEN "CPU"
    ELSE IF device_type = "cuda" THEN "CUDA"
    ELSE "KeyError"

RESERVED_NS ==
    { <<"p","r","i","m">>,
      <<"p","r","i","m","s">>,
      <<"a","t","e","n">>,
      <<"a","t">>,
      <<"t","o","r","c","h">>,
      <<"p","y","t","o","r","c","h">> }

(***************************************************************************)
(* validate_namespace: the name of the check that raises, or "ok".         *)
(***************************************************************************)
\* variant: without the reserved-name check
validate_namespace_dot_only(ns) ==
    IF \E i \in 1..Len(ns) : ns[i] = "." THEN "contains_dot" ELSE "ok"

validate_namespace(ns) ==
    IF \E i \in 1..Len(ns) : ns[i] = "." THEN "contains_dot"
    ELSE IF ns \in RESERVED_NS THEN "reserved"
    ELSE "ok"

(***************************************************************************)
(* A parsed FunctionSchema, as far as this module reads it:                *)
(*   parses      FunctionSchema.parse(schema_str) returns (does not raise) *)
(*   kind        schema.kind()                                             *)
(*   returns     the annotation of each return: "none" (no annotation),    *)
(*               "alias" (annotation, not is_write), "alias_write"         *)
(*   has_tensor_arg   schema.arguments.has_tensor_arg()                    *)
(*   self_arg    schema.arguments.self_arg is not None                     *)
(*   positional  names of schema.arguments.post_self_positional            *)
(*   kwarg_only  names of schema.arguments.pre_tensor_options_kwarg_only   *)
(***************************************************************************)
\* variant: without the view check
validate_schema_view_allowed(schema) ==
    IF schema.kind # "functional" THEN "non_functional"
    ELSE IF ~schema.has_tensor_arg THEN "no_tensor_inputs"
    ELSE IF Len(schema.returns) = 0 THEN "no_outputs"
    ELSE IF schema.self_arg THEN "self_arg"
    ELSE "ok"

validate_schema(schema) ==
    IF schema.kind # "functional" THEN "non_functional"
    ELSE IF Len(schema.returns) > 0
            /\ \E i \in 1..Len(schema.returns) : schema.returns[i] = "alias"
         THEN "view"
    ELSE IF ~schema.has_tensor_arg THEN "no_tensor_inputs"
    ELSE IF Len(schema.returns) = 0 THEN "no_outputs"
    ELSE IF schema.self_arg THEN "self_arg"
    ELSE "ok"

(***************************************************************************)
(* A prototype function, as inspect.getfullargspec sees it:                *)
(*   isfunction  inspect.isfunction(func)                                  *)
(*   args        arg_spec.args                                             *)
(*   kwonlyargs  arg_spec.kwonlyargs                                       *)
(***************************************************************************)
\* variant: without the keyword-only comparison
validate_function_matches_schema_positional_only(schema, func) ==
    IF schema.positional # func.args THEN "arg_names" ELSE "ok"

validate_function_matches_schema(schema, func) ==
    IF schema.positional # func.args THEN "arg_names"
    ELSE IF schema.kwarg_only # func.kwonlyargs THEN "kwonlyarg_names"
    ELSE "ok"

(***************************************************************************)
(* custom_op(schema, ns)(func): the statement that raises, or "ok".        *)
(* The checks run in the order of the code, before any Library is made.    *)
(***************************************************************************)
CustomOpRaisesAt(ns, schema, func) ==
    IF ~func.isfunction THEN "isfunction"
    ELSE IF validate_namespace(ns) # "ok" THEN "validate_namespace"
    ELSE IF ~schema.parses THEN "parse"
    ELSE IF validate_schema(schema) # "ok" THEN "validate_schema"
    ELSE IF validate_function_matches_schema(schema, func) # "ok"
         THEN "validate_function_matches_schema"
    ELSE "ok"

NoFakeImpl == [func |-> "None", location |-> "None"]

\* The kernel get_autograd_not_implemented_kernel returns.
AutogradNotImplemented == "autograd_not_implemented"

\* CustomOp.__init__ and the rest of custom_op.inner after the checks.
NewKernels == [k \in Keys |-> IF k = "Autograd" THEN AutogradNotImplemented ELSE NoKernel]

custom_op(ns, schema, func) ==
    LET at == CustomOpRaisesAt(ns, schema, func) IN
    /\ call.pc = "idle" /\ ctx_stack = <<>>
    \* a given operator may only be created once
    /\ at = "ok" => ns \notin defined
    /\ IF at = "ok"
       THEN /\ libs' = libs \cup {ns}
            /\ defined' = defined \cup {ns}
            /\ global_registry' = global_registry \cup {ns}
            /\ fake_impl' = [n \in defined' |-> IF n = ns THEN NoFakeImpl ELSE fake_impl[n]]
            /\ kernels' = [n \in defined' |-> IF n = ns THEN NewKernels ELSE kernels[n]]
       ELSE UNCHANGED dispatcher
    /\ last' = [op |-> "custom_op", ns |-> ns, schema |-> schema, func |-> func,
                result |-> IF at = "ok" THEN "CustomOp" ELSE "ValueError",
                at |-> at]
    /\ UNCHANGED <<decorator, global_ctx_getter, ctx_stack, call, guard, attached, shape_env>>

(***************************************************************************)
(* Inputs of custom_op.                                                    *)
(***************************************************************************)
SeqsUpTo(S, n) == UNION { [1..k -> S] : k \in 0..n }

NoRepeat(q) == \A i, j \in 1..Len(q) : q[i] = q[j] => i = j

NameList == <<"x", "y", "z", "w">>
ParamNames == { NameList[i] : i \in 1..MaxParams }
ParamLists == { q \in SeqsUpTo(ParamNames, MaxParams) : NoRepeat(q) }
KwOnlyLists == { <<>>, <<"k">> }

NsCustom == <<"c","u","s","t","o","m">>
NsTorch == <<"t","o","r","c","h">>

NsInputs ==
    RESERVED_NS \cup
    { NsCustom,
      <<"a","t","e","n","s">>,          \* a reserved name is a proper prefix
      <<"T","o","r","c","h">>,          \* differs from a reserved name by case
      <<"m","y",".","l","i","b">>,
      <<".">>,
      <<"t","o","r","c","h",".","x">>,
      <<"p","r","i","m",".">> }

ValidSchema ==
    [parses |-> TRUE, kind |-> "functional", returns |-> <<"none">>,
     has_tensor_arg |-> TRUE, self_arg |-> FALSE,
     positional |-> <<"x">>, kwarg_only |-> <<>>]

UnparsableSchema == [ValidSchema EXCEPT !.parses = FALSE]

MatchingFunc == [isfunction |-> TRUE, args |-> <<"x">>, kwonlyargs |-> <<>>]
NotAFunction == [MatchingFunc EXCEPT !.isfunction = FALSE]

\* every combination of the properties validate_schema reads
ShapeSchemas ==
    { [ValidSchema EXCEPT !.kind = k, !.returns = r, !.has_tensor_arg = t, !.self_arg = s] :
        k \in {"functional", "mutable"},
        r \in SeqsUpTo({"none", "alias", "alias_write"}, MaxReturns),
        t \in BOOLEAN, s \in BOOLEAN }

\* every combination of declared parameter names
NameSchemas ==
    { [ValidSchema EXCEPT !.positional = p, !.kwarg_only = k] :
        p \in ParamLists, k \in KwOnlyLists }

NameFuncs ==
    { [isfunction |-> TRUE, args |-> p, kwonlyargs |-> k] :
        p \in ParamLists, k \in KwOnlyLists }

RegisterInputs ==
    ({NsCustom, NsTorch} \X ShapeSchemas \X {MatchingFunc, NotAFunction})
    \cup ({NsCustom} \X (NameSchemas \cup {[ValidSchema EXCEPT !.returns = <<>>]})
                     \X (NameFuncs \cup {NotAFunction}))
    \cup (NsInputs \X {ValidSchema, UnparsableSchema, [ValidSchema EXCEPT !.self_arg = TRUE]}
                   \X {MatchingFunc, NotAFunction, [MatchingFunc EXCEPT !.args = <<"y">>]})

\* the operators the handle-level specification creates
MainInputs ==
    {NsCustom, NsTorch} \X {ValidSchema, [ValidSchema EXCEPT !.returns = <<"alias">>]}
                       \X {MatchingFunc}

\* _shape_env is None
NoShapeEnv == [exists |-> FALSE, allow_dynamic_output_shape_ops |-> FALSE, unbacked |-> {}]

GetNone == [kind |-> "get_none", op |-> <<>>, location |-> "None"]

NoDecorator == [op |-> <<>>, made |-> FALSE, device_types |-> <<>>]

IdleCall == [pc |-> "idle"]

Init ==
    /\ libs = {}
    /\ defined = {}
    /\ kernels = <<>>
    /\ global_registry = {}
    /\ fake_impl = <<>>
    /\ decorator = NoDecorator
    /\ global_ctx_getter = GetNone
    /\ ctx_stack = <<>>
    /\ call = IdleCall
    /\ guard = FALSE
    /\ attached = <<>>
    /\ shape_env = NoShapeEnv
    /\ last = [op |-> "import"]

(***************************************************************************)
(* CustomOp.impl(device_types) and the decorator it returns.               *)
(*                                                                         *)
(* device_types is [kind, items]: a str (items is the one string), a list, *)
(* a tuple, a set, or a one-shot iterator ("iter") over items.             *)
(***************************************************************************)
Range(q) == { q[i] : i \in 1..Len(q) }

\* variant: every device type accepted
validate_device_type_accept_all(device_type) == "ok"

validate_device_type(device_type) ==
    IF device_type \notin SupportedDeviceTypes THEN "ValueError" ELSE "ok"

\* what the closure sees of device_types once the validation loop has run over it
AfterLoop(device_types) ==
    IF device_types.kind = "iter" THEN <<>> ELSE device_types.items

impl(ns, device_types) ==
    LET items == device_types.items
        bad == \E i \in 1..Len(items) : validate_device_type(items[i]) # "ok"
    IN
    /\ call.pc = "idle" /\ ctx_stack = <<>>
    /\ ns \in global_registry
    /\ decorator' = IF bad THEN decorator
                    ELSE [op |-> ns, made |-> TRUE, device_types |-> AfterLoop(device_types)]
    /\ last' = [op |-> "impl", ns |-> ns, device_types |-> device_types,
                result |-> IF bad THEN "ValueError" ELSE "decorator"]
    /\ UNCHANGED <<dispatcher, global_ctx_getter, ctx_stack, call, guard, attached, shape_env>>

\* library.impl(lib, opname, key)(f): associates f with the key
lib_impl(ks, key, f) == [ks EXCEPT ![key] = f]

\* the decorator applied to f; the dispatcher takes one kernel per key and library
impl_inner(f) ==
    LET ns == decorator.op
        dts == Range(decorator.device_types)
        keys == { SUPPORTED_DEVICE_TYPE_TO_KEY(d) : d \in dts }
    IN
    /\ call.pc = "idle" /\ ctx_stack = <<>>
    /\ decorator.made
    /\ \A k \in keys : k \in Keys /\ kernels[ns][k] = NoKernel
    /\ kernels' = [kernels EXCEPT ![ns] = [k \in Keys |-> IF k \in keys THEN f ELSE kernels[ns][k]]]
    /\ decorator' = NoDecorator
    /\ attached' = IF dts = {} THEN attached
                   ELSE Append(attached, [op |-> ns, f |-> f, device_types |-> dts])
    /\ last' = [op |-> "impl_inner", ns |-> ns, f |-> f, keys |-> keys, result |-> f]
    /\ UNCHANGED <<libs, defined, global_registry, fake_impl,
                   global_ctx_getter, ctx_stack, call, guard, shape_env>>

(***************************************************************************)
(* CustomOp.impl_fake()(f), applied at source location `location`.         *)
(***************************************************************************)
MetaWrapper == "f_with_ctx"

\* variant: without the check for an earlier registration
impl_fake_overwriting(ns, f, location) ==
    /\ call.pc = "idle" /\ ctx_stack = <<>>
    /\ ns \in global_registry
    /\ fake_impl' = [fake_impl EXCEPT ![ns] = [func |-> f, location |-> location]]
    /\ kernels' = [kernels EXCEPT ![ns] = lib_impl(kernels[ns], "Meta", MetaWrapper)]
    /\ last' = [op |-> "impl_fake", ns |-> ns, f |-> f, location |-> location,
                before |-> fake_impl[ns], result |-> f, message |-> "None"]
    /\ UNCHANGED <<libs, defined, global_registry, decorator,
                   global_ctx_getter, ctx_stack, call, guard, attached, shape_env>>

impl_fake(ns, f, location) ==
    /\ call.pc = "idle" /\ ctx_stack = <<>>
    /\ ns \in global_registry
    /\ IF fake_impl[ns] # NoFakeImpl
       THEN /\ UNCHANGED <<fake_impl, kernels>>
            /\ last' = [op |-> "impl_fake", ns |-> ns, f |-> f, location |-> location,
                        before |-> fake_impl[ns], result |-> "RuntimeError",
                        message |-> fake_impl[ns].location]
       ELSE /\ fake_impl' = [fake_impl EXCEPT ![ns] = [func |-> f, location |-> location]]
            /\ kernels' = [kernels EXCEPT ![ns] = lib_impl(kernels[ns], "Meta", MetaWrapper)]
            /\ last' = [op |-> "impl_fake", ns |-> ns, f |-> f, location |-> location,
                        before |-> fake_impl[ns], result |-> f, message |-> "None"]
    /\ UNCHANGED <<libs, defined, global_registry, decorator,
                   global_ctx_getter, ctx_stack, call, guard, attached, shape_env>>

(***************************************************************************)
(* The ambient context provider.                                           *)
(***************************************************************************)
\* error_on_ctx of f_with_ctx: closes over qualname and new_location
ErrorOnCtx(ns) == [kind |-> "error_on_ctx", op |-> ns, location |-> fake_impl[ns].location]

\* a provider that hands back a FakeTensorImplCtx for the operator
CtxGetter(ns) == [kind |-> "ctx_getter", op |-> ns, location |-> "None"]

\* global_ctx_getter(): what get_ctx() does under provider g
\* variant: a default provider that raises
CallGetterRaising(g) ==
    IF g.kind = "ctx_getter" THEN [result |-> "FakeTensorImplCtx", op |-> g.op, location |-> "None"]
    ELSE [result |-> "RuntimeError", op |-> g.op, location |-> g.location]

CallGetter(g) ==
    IF g.kind = "get_none" THEN [result |-> "None", op |-> <<>>, location |-> "None"]
    ELSE IF g.kind = "error_on_ctx"
         THEN [result |-> "RuntimeError", op |-> g.op, location |-> g.location]
    ELSE [result |-> "FakeTensorImplCtx", op |-> g.op, location |-> "None"]

get_ctx ==
    /\ last' = [op |-> "get_ctx", depth |-> Len(ctx_stack), getter |-> global_ctx_getter,
                via |-> IF ctx_stack = <<>> THEN "none" ELSE Head(ctx_stack).via,
                out |-> CallGetter(global_ctx_getter)]
    /\ UNCHANGED <<dispatcher, decorator, global_ctx_getter, ctx_stack, call, guard, attached, shape_env>>

\* set_ctx_getter(ctx_getter).__enter__
set_ctx_getter_enter(ctx_getter, via) ==
    /\ Len(ctx_stack) < MaxDepth
    /\ ctx_stack' = <<[prev |-> global_ctx_getter, ctx_getter |-> ctx_getter, via |-> via]>>
                     \o ctx_stack
    /\ global_ctx_getter' = ctx_getter
    /\ last' = [op |-> "fake_enter", via |-> via, ctx_getter |-> ctx_getter]
    /\ UNCHANGED <<dispatcher, decorator, call, guard, attached, shape_env>>

\* variant: the restore outside a finally block, skipped when f raises
RestoredNoFinally(frame, exc) == IF exc THEN global_ctx_getter ELSE frame.prev

\* the value global_ctx_getter has once the with block is left
Restored(frame, exc) == frame.prev

\* set_ctx_getter(...).__exit__: f returned (exc = FALSE) or raised (exc = TRUE)
set_ctx_getter_exit(exc) ==
    /\ ctx_stack # <<>>
    /\ global_ctx_getter' = Restored(Head(ctx_stack), exc)
    /\ ctx_stack' = Tail(ctx_stack)
    /\ last' = [op |-> "fake_exit", exc |-> exc, frame |-> Head(ctx_stack)]
    /\ UNCHANGED <<dispatcher, decorator, call, guard, attached, shape_env>>

\* variant: a provider of a context installed instead
WrapperGetterReal(ns) == CtxGetter(ns)

\* the getter f_with_ctx installs around f
WrapperGetter(ns) == ErrorOnCtx(ns)

\* the dispatcher runs the Meta kernel f_with_ctx of an operator
f_with_ctx(ns) ==
    /\ call.pc = "idle"
    /\ ns \in defined
    /\ kernels[ns]["Meta"] = MetaWrapper
    /\ set_ctx_getter_enter(WrapperGetter(ns), "meta")

\* fake tensor propagation runs _fake_impl.func under a provider of a real context
fake_tensor_call(ns) ==
    /\ call.pc = "idle"
    /\ ns \in defined
    /\ fake_impl[ns] # NoFakeImpl
    /\ set_ctx_getter_enter(CtxGetter(ns), "fake_tensor")

(***************************************************************************)
(* Calling the handle.  args and kwargs are the pytree leaves of the       *)
(* positional and of the keyword arguments: tensors (device,               *)
(* requires_grad) and values that are no tensors.                          *)
(***************************************************************************)
Tensors == [tensor : {TRUE}, device : {"cpu", "cuda"}, requires_grad : BOOLEAN]
NonTensor == [tensor |-> FALSE, device |-> "none", requires_grad |-> FALSE]
Leaves == Tensors \cup {NonTensor}

ArgInputs == { a \in SeqsUpTo(Leaves, MaxArgs) : Len(a) >= 1 }
KwargInputs == SeqsUpTo(Leaves, 1)

\* variant: the keyword arguments left out
tree_any_requires_grad_args_only(args, kwargs) ==
    \E i \in 1..Len(args) : args[i].tensor /\ args[i].requires_grad

\* pytree.tree_any(lambda x: isinstance(x, Tensor) and x.requires_grad, (args, kwargs))
tree_any_requires_grad(args, kwargs) ==
    LET leaves == args \o kwargs IN
    \E i \in 1..Len(leaves) : leaves[i].tensor /\ leaves[i].requires_grad

\* the backend dispatch key of a call: the highest priority device type among
\* the tensors present, in the order cuda, cpu
BackendKey(args, kwargs) ==
    LET leaves == args \o kwargs IN
    IF \E i \in 1..Len(leaves) : leaves[i].tensor /\ leaves[i].device = "cuda"
    THEN "CUDA"
    ELSE "CPU"

\* CustomOp.__call__ reaching the Autograd kernel: autograd_not_implemented up to
\* the construction of the guard
call_begin(ns, args, kwargs) ==
    /\ call.pc = "idle" /\ ctx_stack = <<>>
    /\ ns \in global_registry
    /\ kernels[ns]["Autograd"] = AutogradNotImplemented
    /\ \E i \in 1..Len(args \o kwargs) : (args \o kwargs)[i].tensor
    /\ IF tree_any_requires_grad(args, kwargs)
       THEN /\ last' = [op |-> "call", ns |-> ns, args |-> args, kwargs |-> kwargs,
                        result |-> "RuntimeError", raised_by |-> "autograd_not_implemented",
                        forwarded |-> 0, kernel |-> NoKernel, inner |-> "None"]
            /\ UNCHANGED <<call, guard>>
       ELSE /\ guard' = TRUE
            /\ call' = [pc |-> "forward", ns |-> ns, args |-> args, kwargs |-> kwargs]
            /\ last' = [op |-> "call_begin", ns |-> ns]
    /\ UNCHANGED <<dispatcher, decorator, global_ctx_getter, ctx_stack, attached, shape_env>>

\* custom_op(*args, **kwargs) below autograd: the backend kernel runs and returns
\* (raises = FALSE) or raises; with no kernel under the key the dispatcher raises
call_forward(raises) ==
    LET key == BackendKey(call.args, call.kwargs)
        kernel == kernels[call.ns][key]
    IN
    /\ call.pc = "forward"
    /\ call' = [pc |-> "finally", ns |-> call.ns, args |-> call.args, kwargs |-> call.kwargs,
                kernel |-> kernel,
                inner |-> IF kernel = NoKernel THEN "NotImplementedError"
                          ELSE IF raises THEN "KernelError" ELSE "value"]
    /\ last' = [op |-> "call_forward", ns |-> call.ns]
    /\ UNCHANGED <<dispatcher, decorator, global_ctx_getter, ctx_stack, guard, attached, shape_env>>

\* finally: del guard, then the result of the forwarded call leaves the kernel
call_finally ==
    /\ call.pc = "finally"
    /\ guard' = FALSE
    /\ call' = IdleCall
    /\ last' = [op |-> "call", ns |-> call.ns, args |-> call.args, kwargs |-> call.kwargs,
                result |-> call.inner, raised_by |-> IF call.inner = "value" THEN "None" ELSE "kernel",
                forwarded |-> 1, kernel |-> call.kernel, inner |-> call.inner]
    /\ UNCHANGED <<dispatcher, decorator, global_ctx_getter, ctx_stack, attached, shape_env>>

(***************************************************************************)
(* Inputs of the handle's methods.                                         *)
(***************************************************************************)
UserFuncs == {"f1", "f2"}
Locations == {"ops.py:10", "ops.py:20"}
DeviceNames == {"cpu", "cuda", "xpu"}
MaxDevices == 2

DeviceTypeInputs ==
    { [kind |-> "str", items |-> <<d>>] : d \in DeviceNames }
    \cup { [kind |-> k, items |-> q] :
             k \in {"list", "tuple", "iter"}, q \in SeqsUpTo(DeviceNames, MaxDevices) }
    \cup { [kind |-> "set", items |-> q] :
             q \in { r \in SeqsUpTo(DeviceNames, MaxDevices) : NoRepeat(r) } }

(***************************************************************************)
(* Registration: any sequence of registrations of plain operators, then    *)
(* one registration attempt with any of RegisterInputs, where the          *)
(* behaviour is left.                                                      *)
(***************************************************************************)
SetupInputs ==
    { NsCustom, NsTorch, <<"a","t","e","n","s">>, <<"T","o","r","c","h">> }
        \X {ValidSchema} \X {MatchingFunc}

Attempted ==
    last.op = "custom_op" /\ <<last.ns, last.schema, last.func>> \notin SetupInputs

CustomOpSetup ==
    /\ ~Attempted
    /\ \E inp \in SetupInputs : custom_op(inp[1], inp[2], inp[3])

(***************************************************************************)
(* FakeTensorImplCtx: the context a provider hands back, built on the      *)
(* shape environment of the fake tensor mode in force.  unbacked is the    *)
(* set of unbacked symbols (by number) the environment has allocated.      *)
(***************************************************************************)
ShapeEnvs ==
    { NoShapeEnv } \cup
    { [exists |-> TRUE, allow_dynamic_output_shape_ops |-> a, unbacked |-> {}] : a \in BOOLEAN }

\* a fake tensor mode is entered with its shape environment (or none)
fake_mode(env) ==
    /\ call.pc = "idle" /\ ctx_stack = <<>>
    /\ shape_env' = env
    /\ last' = [op |-> "fake_mode", env |-> env]
    /\ UNCHANGED <<dispatcher, decorator, global_ctx_getter, ctx_stack, call, guard, attached>>

\* shape_env.create_unbacked_symint(): the next symbol of the environment's counter
create_unbacked_symint(env) == Cardinality(env.unbacked)

\* variant: without the allow_dynamic_output_shape_ops test
new_data_dependent_symint_raises_none_only(env) == ~env.exists

\* the condition under which new_data_dependent_symint raises
new_data_dependent_symint_raises(env) ==
    ~env.exists \/ ~env.allow_dynamic_output_shape_ops

\* ctx.new_data_dependent_symint() on the context get_ctx() returned
new_data_dependent_symint ==
    /\ global_ctx_getter.kind = "ctx_getter"
    /\ Cardinality(shape_env.unbacked) < MaxSymbols
    /\ IF new_data_dependent_symint_raises(shape_env)
       THEN /\ UNCHANGED shape_env
            /\ last' = [op |-> "new_data_dependent_symint", env |-> shape_env,
                        result |-> "DynamicOutputShapeException",
                        value |-> -1, of |-> global_ctx_getter.op]
       ELSE /\ shape_env' = [shape_env EXCEPT
                                !.unbacked = @ \cup {create_unbacked_symint(shape_env)}]
            /\ last' = [op |-> "new_data_dependent_symint", env |-> shape_env,
                        result |-> "SymInt",
                        value |-> create_unbacked_symint(shape_env), of |-> global_ctx_getter.op]
    /\ UNCHANGED <<dispatcher, decorator, global_ctx_getter, ctx_stack, call, guard, attached>>

CustomOpRegister ==
    /\ ~Attempted
    /\ \E inp \in RegisterInputs : custom_op(inp[1], inp[2], inp[3])

NextRegister == CustomOpSetup \/ CustomOpRegister

SpecRegister == Init /\ [][NextRegister]_vars

(***************************************************************************)
(* The handle: registration of implementations.                            *)
(***************************************************************************)
CustomOpMain == \E inp \in MainInputs : custom_op(inp[1], inp[2], inp[3])

\* impl is used as a decorator: the closure it returns is applied before the
\* next impl(...) call
Impl ==
    /\ ~decorator.made
    /\ \E ns \in global_registry, dt \in DeviceTypeInputs : impl(ns, dt)

ImplInner == \E f \in UserFuncs : impl_inner(f)

ImplFake == \E ns \in global_registry, f \in UserFuncs, loc \in Locations : impl_fake(ns, f, loc)

Next ==
    \/ CustomOpMain
    \/ Impl
    \/ ImplInner
    \/ ImplFake

Spec == Init /\ [][Next]_vars

(***************************************************************************)
(* The context provider around fake-implementation calls.                  *)
(***************************************************************************)
MetaKernelCall == \E ns \in defined : f_with_ctx(ns)

FakeTensorCall == \E ns \in defined : fake_tensor_call(ns)

FakeExit == \E exc \in BOOLEAN : set_ctx_getter_exit(exc)

GetCtx == get_ctx

FakeMode == \E env \in ShapeEnvs : fake_mode(env)

NewDataDependentSymint == new_data_dependent_symint

NextCtx ==
    \/ CustomOpMain
    \/ ImplFake
    \/ MetaKernelCall
    \/ FakeTensorCall
    \/ FakeExit
    \/ GetCtx
    \/ FakeMode
    \/ NewDataDependentSymint

SpecCtx == Init /\ [][NextCtx]_vars

(***************************************************************************)
(* Calls through the handle: any sequence of registrations, then one call, *)
(* where the behaviour is left.                                            *)
(***************************************************************************)
CallDeviceTypes ==
    { [kind |-> "str", items |-> <<"cpu">>], [kind |-> "str", items |-> <<"cuda">>],
      [kind |-> "str", items |-> <<"xpu">>], [kind |-> "list", items |-> <<"cuda", "cpu">>] }

ImplForCall == \E ns \in global_registry, dt \in CallDeviceTypes : impl(ns, dt)

Called == last.op = "call"

CallBegin ==
    /\ ~Called
    /\ \E ns \in global_registry, args \in ArgInputs, kwargs \in KwargInputs :
           call_begin(ns, args, kwargs)

CallForward == \E raises \in BOOLEAN : call_forward(raises)

CallFinally == call_finally

NextCall ==
    \/ ~Called /\ CustomOpMain
    \/ ~Called /\ ImplForCall
    \/ ~Called /\ ImplInner
    \/ CallBegin
    \/ CallForward
    \/ CallFinally

SpecCall == Init /\ [][NextCall]_vars

(***************************************************************************)
(* Properties of registration (checked under SpecRegister).                *)
(***************************************************************************)
\* the schemas the specification rules out, stated on the parsed schema
UnsupportedSchema(schema) ==
    \/ ~schema.has_tensor_arg
    \/ schema.returns = <<>>
    \/ schema.self_arg
    \/ schema.kind # "functional"
    \/ "alias" \in Range(schema.returns)

\* C1: custom_op(schema, ns)(func) with a schema that has no tensor input, no
\* output, a "self" parameter, a non-functional kind or an aliasing view return
\* raises, and the step creates no Library fragment, defines no schema, installs
\* no kernel (Autograd included) and adds nothing to global_registry.
C1_UnsupportedSchemaRegistersNothing ==
    [][ (last'.op = "custom_op" /\ UnsupportedSchema(last'.schema))
        => /\ last'.result = "ValueError"
           /\ last'.at # "ok"
           /\ libs' = libs
           /\ defined' = defined
           /\ kernels' = kernels
           /\ global_registry' = global_registry ]_vars

\* C1 witness: a view-returning schema, otherwise supported, is refused by
\* validate_schema while another operator is registered.
C1_Witness ==
    /\ last.op = "custom_op"
    /\ last.at = "validate_schema"
    /\ last.schema.returns = <<"none", "alias">>
    /\ last.schema.kind = "functional"
    /\ last.schema.has_tensor_arg /\ ~last.schema.self_arg
    /\ last.result = "ValueError"
    /\ last.ns \notin defined
    /\ global_registry # {}

\* C2: with a supported schema, registration whose declared positional or
\* keyword-only names (or their order) differ from the function's raises, at
\* validate_function_matches_schema when nothing earlier raised; registration
\* succeeds only with both name tuples equal.
C2_SignatureMismatchFails ==
    (last.op = "custom_op" /\ ~UnsupportedSchema(last.schema))
    => /\ (last.schema.positional # last.func.args
            \/ last.schema.kwarg_only # last.func.kwonlyargs)
          => /\ last.result = "ValueError"
             /\ (last.func.isfunction /\ last.schema.parses
                 /\ "." \notin Range(last.ns) /\ last.ns \notin RESERVED_NS)
                => last.at = "validate_function_matches_schema"
       /\ last.result = "CustomOp"
          => /\ last.schema.positional = last.func.args
             /\ last.schema.kwarg_only = last.func.kwonlyargs

\* C2 witness: the same positional names in another order are refused.
C2_Witness ==
    /\ last.op = "custom_op"
    /\ last.at = "validate_function_matches_schema"
    /\ last.schema.positional = <<"x", "y">>
    /\ last.func.args = <<"y", "x">>
    /\ last.schema.kwarg_only = last.func.kwonlyargs
    /\ last.result = "ValueError"

\* the names the specification reserves
ReservedNames ==
    { <<"p","r","i","m">>, <<"p","r","i","m","s">>, <<"a","t","e","n">>,
      <<"a","t">>, <<"t","o","r","c","h">>, <<"p","y","t","o","r","c","h">> }

RejectedNamespace(ns) == "." \in Range(ns) \/ ns \in ReservedNames

\* C10: a namespace that contains '.' or is one of prim, prims, aten, at, torch,
\* pytorch makes custom_op raise no later than validate_namespace (so before the
\* schema is parsed) and the step changes nothing in the dispatcher or the
\* registry; every other namespace passes validate_namespace.
C10_NamespaceRejectedFirst ==
    [][ last'.op = "custom_op"
        => /\ RejectedNamespace(last'.ns)
              => /\ last'.result = "ValueError"
                 /\ last'.at \in {"isfunction", "validate_namespace"}
                 /\ last'.func.isfunction => last'.at = "validate_namespace"
                 /\ UNCHANGED dispatcher
           /\ ~RejectedNamespace(last'.ns) => last'.at # "validate_namespace" ]_vars

\* C10 witness: a reserved namespace is refused although the schema would not
\* even parse, while another operator is registered.
C10_Witness ==
    /\ last.op = "custom_op"
    /\ last.ns = <<"p","y","t","o","r","c","h">>
    /\ ~last.schema.parses
    /\ last.at = "validate_namespace"
    /\ last.result = "ValueError"
    /\ global_registry # {}

(***************************************************************************)
(* Properties of the handle (checked under Spec).                          *)
(***************************************************************************)
\* C3: an operator holds at most one fake implementation, the first one
\* registered: an impl_fake attempt on an operator that has one raises with the
\* recorded location of the first registration in its message and changes neither
\* the recorded implementation nor its location (nor any kernel); an attempt on
\* an operator that has none records the function and the location it is given;
\* and no step ever changes a recorded fake implementation.
C3_SingleFakeImpl ==
    [][ /\ \A ns \in defined :
              fake_impl[ns] # NoFakeImpl => fake_impl'[ns] = fake_impl[ns]
        /\ last'.op = "impl_fake"
           => IF fake_impl[last'.ns] # NoFakeImpl
              THEN /\ last'.result = "RuntimeError"
                   /\ last'.message = fake_impl[last'.ns].location
                   /\ fake_impl' = fake_impl
                   /\ kernels' = kernels
              ELSE /\ last'.result = last'.f
                   /\ fake_impl'[last'.ns] = [func |-> last'.f, location |-> last'.location] ]_vars

\* C3 witness: a second registration, of another function from another place,
\* has failed naming the first place, and the first registration stands.
C3_Witness ==
    /\ last.op = "impl_fake"
    /\ last.result = "RuntimeError"
    /\ last.ns \in defined
    /\ last.message = fake_impl[last.ns].location
    /\ last.location # fake_impl[last.ns].location
    /\ last.f # fake_impl[last.ns].func
    /\ kernels[last.ns]["Meta"] = MetaWrapper

\* C9: impl(device_types) with any element that is neither 'cpu' nor 'cuda'
\* raises at the impl call: no decorator comes back (the closure held is the one
\* held before) and no kernel is registered for any listed device type.
C9_UnknownDeviceTypeRejected ==
    [][ (last'.op = "impl"
         /\ \E i \in 1..Len(last'.device_types.items) :
               last'.device_types.items[i] \notin {"cpu", "cuda"})
        => /\ last'.result = "ValueError"
           /\ decorator' = decorator
           /\ kernels' = kernels
           /\ attached' = attached ]_vars

\* C9 witness: impl(['cpu', 'xpu']) has raised and nothing is registered for CPU.
C9_Witness ==
    /\ last.op = "impl"
    /\ last.device_types = [kind |-> "list", items |-> <<"cpu", "xpu">>]
    /\ last.result = "ValueError"
    /\ kernels[last.ns]["CPU"] = NoKernel
    /\ ~decorator.made

C5_Claimed_WrapperHandsBackContext ==
    (last.op = "get_ctx" /\ last.via = "meta")
    => last.out.result = "FakeTensorImplCtx"

\* C5 as amended: while a fake implementation runs through the Meta wrapper
\* f_with_ctx, the ambient provider is the wrapper's error_on_ctx: get_ctx()
\* raises RuntimeError naming the operator and the place of its impl_fake
\* registration, and returns no context.  A context comes back only under a
\* provider of one installed through set_ctx_getter.
C5_WrapperInstallsErrorOnCtx ==
    /\ (ctx_stack # <<>> /\ Head(ctx_stack).via = "meta")
       => global_ctx_getter.kind = "error_on_ctx"
    /\ (last.op = "get_ctx" /\ last.via = "meta")
       => /\ last.out.result = "RuntimeError"
          /\ last.out.op = last.getter.op
          /\ last.out.op \in defined
          /\ last.out.location = fake_impl[last.out.op].location
    /\ (last.op = "get_ctx" /\ last.out.result = "FakeTensorImplCtx")
       => last.via = "fake_tensor"

\* C5 witness: get_ctx() has raised inside the Meta wrapper.
C5_Witness ==
    /\ last.op = "get_ctx"
    /\ last.via = "meta"
    /\ last.out.result = "RuntimeError"
    /\ last.out.location \in Locations
    /\ ctx_stack # <<>>

\* C6: the provider is the one installed by the innermost call in progress, each
\* call in progress holds the provider that was current when it started, and with
\* no call in progress the provider is the default one: every exit, by return or
\* by exception, nested or not, has put back what its call found.
C6_ProviderRestored ==
    /\ global_ctx_getter = IF ctx_stack = <<>> THEN GetNone ELSE Head(ctx_stack).ctx_getter
    /\ \A i \in 1..Len(ctx_stack) :
          ctx_stack[i].prev = IF i = Len(ctx_stack) THEN GetNone
                              ELSE ctx_stack[i + 1].ctx_getter
    /\ last.op = "fake_exit" => global_ctx_getter = last.frame.prev

\* C6 witness: a nested call of another kind has left by exception and the
\* provider is the enclosing call's again.
C6_Witness ==
    /\ last.op = "fake_exit"
    /\ last.exc
    /\ Len(ctx_stack) = 1
    /\ global_ctx_getter = Head(ctx_stack).ctx_getter
    /\ global_ctx_getter # last.frame.ctx_getter
    /\ global_ctx_getter # GetNone

(***************************************************************************)
(* Properties of calls (checked under SpecCall).                           *)
(***************************************************************************)
HasAttached(ns, d) ==
    \E i \in 1..Len(attached) : attached[i].op = ns /\ d \in attached[i].device_types

\* the function a decorator of impl registered for device type d
AttachedFor(ns, d) ==
    attached[CHOOSE i \in 1..Len(attached) :
                attached[i].op = ns /\ d \in attached[i].device_types].f

AnyCudaTensor(leaves) ==
    \E i \in 1..Len(leaves) : leaves[i].tensor /\ leaves[i].device = "cuda"

\* C7: on an operator with a function attached for 'cpu' and one for 'cuda', a
\* call that reaches a device kernel runs the function attached for 'cuda' when
\* any input tensor is a CUDA tensor and the one attached for 'cpu' when all
\* are CPU tensors, in whichever order the two were attached.
C7_DevicePriority ==
    (last.op = "call" /\ last.forwarded = 1
     /\ HasAttached(last.ns, "cpu") /\ HasAttached(last.ns, "cuda"))
    => last.kernel = IF AnyCudaTensor(last.args \o last.kwargs)
                     THEN AttachedFor(last.ns, "cuda")
                     ELSE AttachedFor(last.ns, "cpu")

\* C7 witness: 'cuda' attached first, 'cpu' second with another function; a
\* call with a CPU and a CUDA tensor ran the function attached for 'cuda'.
C7_Witness ==
    /\ last.op = "call" /\ last.forwarded = 1
    /\ Len(attached) = 2
    /\ attached[1].device_types = {"cuda"}
    /\ attached[2].device_types = {"cpu"}
    /\ attached[1].f # attached[2].f
    /\ Len(last.args) = 2
    /\ last.args[1].device = "cpu" /\ last.args[2].device = "cuda"
    /\ last.kernel = attached[1].f
    /\ last.result = "value"

AnyRequiresGrad(leaves) ==
    \E i \in 1..Len(leaves) : leaves[i].tensor /\ leaves[i].requires_grad

\* C8: a call through the default Autograd kernel raises from that kernel
\* exactly when some tensor among the positional or keyword arguments requires
\* gradients; otherwise it forwards once to the operator, under the
\* below-autograd guard, and its outcome is the forwarded call's outcome; the
\* guard is released whenever no call is in progress.
C8_AutogradNotImplemented ==
    /\ last.op = "call"
       => /\ (last.result = "RuntimeError" /\ last.raised_by = "autograd_not_implemented")
             <=> AnyRequiresGrad(last.args \o last.kwargs)
          /\ AnyRequiresGrad(last.args \o last.kwargs) => last.forwarded = 0
          /\ ~AnyRequiresGrad(last.args \o last.kwargs)
             => /\ last.forwarded = 1
                /\ last.result = last.inner
                /\ last.result \in {"value", "KernelError", "NotImplementedError"}
    /\ call.pc \in {"forward", "finally"} => guard
    /\ call.pc = "idle" => ~guard

\* C8 witness: a forwarded call whose kernel raised has ended with the guard
\* released; it had a keyword tensor and no tensor requiring gradients.
C8_Witness ==
    /\ last.op = "call"
    /\ last.forwarded = 1
    /\ last.result = "KernelError"
    /\ Len(last.kwargs) = 1 /\ last.kwargs[1].tensor
    /\ ~guard
    /\ call.pc = "idle"

(***************************************************************************)
(* Properties of impl's decorator (checked under Spec).                    *)
(***************************************************************************)
\* the dispatch key the specification gives a device category
DeviceKey(d) == IF d = "cuda" THEN "CUDA" ELSE "CPU"

\* C12: when impl(device_types) has returned its decorator and the decorator is
\* applied to f, f is the kernel under the dispatch key of every device type
\* device_types contained (str, list, tuple, set or one-shot iterator alike),
\* every other key keeps its kernel, one application is recorded for the
\* distinct device types, and f itself is returned.
C12_DecoratorRegistersEveryDeviceType ==
    [][ (last.op = "impl" /\ last.result = "decorator" /\ last'.op = "impl_inner")
        => LET given == Range(last.device_types.items)
               keys == { DeviceKey(d) : d \in given }
           IN /\ last'.result = last'.f
              /\ last'.ns = last.ns
              /\ \A k \in Keys :
                    kernels'[last.ns][k] = IF k \in keys THEN last'.f
                                           ELSE kernels[last.ns][k]
              /\ given # {}
                 => attached' = Append(attached, [op |-> last.ns, f |-> last'.f,
                                                  device_types |-> given]) ]_vars

(***************************************************************************)
(* Properties of the inference context (checked under SpecCtx).            *)
(***************************************************************************)
\* C11: new_data_dependent_symint raises when there is no shape environment or
\* the environment disallows dynamic output shapes, and then allocates nothing;
\* otherwise it returns a symbol the environment had not allocated before and
\* the environment has allocated exactly that one symbol more.
C11_NewDataDependentSymint ==
    [][ last'.op = "new_data_dependent_symint"
        => IF ~shape_env.exists \/ ~shape_env.allow_dynamic_output_shape_ops
           THEN /\ last'.result = "DynamicOutputShapeException"
                /\ shape_env' = shape_env
           ELSE /\ last'.result = "SymInt"
                /\ last'.value \notin shape_env.unbacked
                /\ shape_env'.unbacked = shape_env.unbacked \cup {last'.value}
                /\ shape_env'.exists
                /\ shape_env'.allow_dynamic_output_shape_ops ]_vars

\* C11 witness: inside a fake-implementation call, under an environment that
\* disallows dynamic output shapes, the request has raised and nothing is
\* allocated.
C11_Witness ==
    /\ last.op = "new_data_dependent_symint"
    /\ last.result = "DynamicOutputShapeException"
    /\ shape_env.exists
    /\ ~shape_env.allow_dynamic_output_shape_ops
    /\ shape_env.unbacked = {}
    /\ ctx_stack # <<>>
    /\ global_ctx_getter.kind = "ctx_getter"

====
